---- MODULE Spec2Model ----
(***************************************************************************)
(* A model of week4/solution/src/tui.cpp: the Element tree (Text, Heading, *)
(* Container), Element::dimensions() and Element::render().                *)
(*                                                                         *)
(* The output sink (cout) is a sequence of tokens: one token per character *)
(* written, one token for each of the two escape sequences a Heading       *)
(* writes, and one token for each endl.                                    *)
(*                                                                         *)
(* size_t values are kept as integers; a negative integer n stands for the *)
(* wrapped-around value 2^64 + n (the two's complement reading), so that   *)
(* unsigned subtraction and unsigned comparison are exact for all values   *)
(* the model meets.                                                        *)
(***************************************************************************)
EXTENDS Integers, Sequences, FiniteSets, TLC

VARIABLES tree, stack, out, log, cw

vars == <<tree, stack, out, log, cw>>

(***************************************************************************)
(* Bounds of the model.                                                    *)
(***************************************************************************)
MaxLen == 1

MaxNodes == 4

MaxRenders == 2

MaxCallNodes == 3

MaxCalls == 2

PadCap == 3

(***************************************************************************)
(* Output tokens.                                                          *)
(***************************************************************************)
BOLD == "ESC[1m"

RESET == "ESC[0m"

ENDL == "\n"

IsEscape(tok) == tok \in {BOLD, RESET}

(***************************************************************************)
(* size_t arithmetic.                                                      *)
(***************************************************************************)
ULess(a, b) ==
  IF (a >= 0) = (b >= 0) THEN a < b ELSE a >= 0

USub(a, b) == a - b

\* A faulty variant of UMax: the smaller of the two.
UMin(a, b) == IF ULess(a, b) THEN a ELSE b

UMax(a, b) == IF ULess(a, b) THEN b ELSE a

(***************************************************************************)
(* Elements.  Every element is a record of the same shape; a field that    *)
(* the variant does not have is empty.                                     *)
(***************************************************************************)
Text(s) == [kind |-> "Text", text |-> s, children |-> <<>>]

Heading(s) == [kind |-> "Heading", text |-> s, children |-> <<>>]

Container(cs) == [kind |-> "Container", text |-> <<>>, children |-> cs]

\* An element of some other class derived from Element.
Custom == [kind |-> "Custom", text |-> <<>>, children |-> <<>>]

HelloWorld == <<"H", "e", "l", "l", "o", " ", "w", "o", "r", "l", "d">>

LongString ==
  <<"T", "h", "i", "s", " ", "i", "s", " ", "a", " ", "l", "o", "n", "g", " ",
    "s", "t", "r", "i", "n", "g", " ", "o", "f", " ", "t", "e", "x", "t">>

DemoTree == Container(<<Heading(HelloWorld), Text(LongString)>>)

Content(L) == [i \in 1..L |-> "x"]

Leaves ==
  {Text(Content(L)) : L \in 0..MaxLen} \cup {Heading(Content(L)) : L \in 0..MaxLen}

RECURSIVE TreesOfSize(_), ForestsOfSize(_)
TreesOfSize(n) ==
  (IF n = 1 THEN Leaves ELSE {})
    \cup {Container(f) : f \in ForestsOfSize(n - 1)}

ForestsOfSize(n) ==
  IF n = 0 THEN {<<>>}
  ELSE UNION {{<<t>> \o f : t \in TreesOfSize(k), f \in ForestsOfSize(n - k)} :
                k \in 1..n}

TreesUpTo(n) == UNION {TreesOfSize(k) : k \in 1..n}

RECURSIVE Sub(_, _)
Sub(e, p) == IF p = <<>> THEN e ELSE Sub(e.children[Head(p)], Tail(p))

RECURSIVE Paths(_)
Paths(e) ==
  {<<>>} \cup UNION {{<<k>> \o q : q \in Paths(e.children[k])} :
                       k \in 1..Len(e.children)}

(***************************************************************************)
(* Element::dimensions().                                                  *)
(***************************************************************************)
\* A faulty variant of TextDimensions: the width of what render() writes, the
\* markers of a Heading included.
TextDimensionsStyled(e) ==
  [width |-> Len(e.text) + (IF e.kind = "Heading" THEN 2 ELSE 0), height |-> 1]

TextDimensions(e) == [width |-> Len(e.text), height |-> 1]

CustomDimensions(w) == [width |-> w, height |-> 1]

RECURSIVE Dimensions(_, _), DimensionsLoop(_, _, _, _, _)
\* A faulty variant of DimensionsLoop: each child measured as if it were a Text,
\* without recursion into a child Container.
DimensionsLoopShallow(cs, k, max_width, sum_height, w) ==
  IF k > Len(cs) THEN [width |-> max_width + 2, height |-> sum_height]
  ELSE LET dims == TextDimensions(cs[k])
       IN  DimensionsLoop(cs, k + 1, UMax(max_width, dims.width),
                          sum_height + dims.height, w)

DimensionsLoop(cs, k, max_width, sum_height, w) ==
  IF k > Len(cs) THEN [width |-> max_width + 2, height |-> sum_height]
  ELSE LET dims == Dimensions(cs[k], w)
       IN  DimensionsLoop(cs, k + 1, UMax(max_width, dims.width),
                          sum_height + dims.height, w)

Dimensions(e, w) ==
  CASE e.kind = "Container" -> DimensionsLoop(e.children, 1, 0, 0, w)
    [] e.kind = "Custom" -> CustomDimensions(w)
    [] OTHER -> TextDimensions(e)

(***************************************************************************)
(* Element::render() of the leaves, and Container::render()'s render_line. *)
(***************************************************************************)
TextRender(e) == e.text

HeadingRender(e) == <<BOLD>> \o e.text \o <<RESET>>

CustomRender == <<"?">>

LeafRender(e) ==
  CASE e.kind = "Heading" -> HeadingRender(e)
    [] e.kind = "Custom" -> CustomRender
    [] OTHER -> TextRender(e)

RECURSIVE Dashes(_, _)
Dashes(i, n) == IF ULess(i, n) THEN <<"-">> \o Dashes(i + 1, n) ELSE <<>>

\* A faulty variant of RenderLine: one '-' too many.
RenderLineInclusive(dims) ==
  <<"+">> \o Dashes(0, USub(dims.width, 1)) \o <<"+", ENDL>>

RenderLine(dims) == <<"+">> \o Dashes(0, USub(dims.width, 2)) \o <<"+", ENDL>>

\* A faulty variant of Padding: the two border columns not subtracted.
PaddingNoBorder(f) == USub(f.dims.width, f.child_dims.width)

Padding(f) == USub(USub(f.dims.width, 2), f.child_dims.width)

(***************************************************************************)
(* The state: the tree the caller built, the activations of                *)
(* Container::render (innermost last), the output sink, the calls the      *)
(* caller has made, and the width an Element of another class reports.     *)
(***************************************************************************)
NoDims == [width |-> 0, height |-> 0]

Frame(p, w) ==
  [path |-> p, pc |-> "top", dims |-> Dimensions(Sub(tree, p), w), k |-> 1,
   child_dims |-> NoDims, i |-> 0]

Idle == stack = <<>>

Top == stack[Len(stack)]

SetTop(f) == [stack EXCEPT ![Len(stack)] = f]

\* A faulty variant of ChildIndex: the children taken last to first.
ChildIndexReversed(f) == Len(Sub(tree, f.path).children) - f.k + 1

ChildIndex(f) == f.k

Child(f) == Sub(tree, f.path).children[ChildIndex(f)]

Finish(lg, o) == [lg EXCEPT ![Len(lg)].to = Len(o)]

TypeOK ==
  /\ tree.kind \in {"Text", "Heading", "Container", "Custom"}
  /\ \A j \in 1..Len(stack) :
       /\ stack[j].path \in Paths(tree)
       /\ stack[j].pc \in {"top", "row", "child", "pad"}
  /\ \A j \in 1..Len(log) : log[j].op \in {"dimensions", "render"}
  /\ cw \in Nat

(***************************************************************************)
(* The caller's calls.                                                     *)
(***************************************************************************)
\* A faulty variant of CallDimensions: the element is written to the sink as it is
\* measured.
CallDimensionsWriting(p) ==
  /\ Idle
  /\ out' = out \o <<"?">>
  /\ UNCHANGED <<tree, stack, cw>>
  /\ log' = Append(log, [op |-> "dimensions", node |-> p,
                         dims |-> Dimensions(Sub(tree, p), cw),
                         from |-> Len(out), to |-> Len(out')])

CallDimensions(p) ==
  /\ Idle
  /\ UNCHANGED <<tree, stack, out, cw>>
  /\ log' = Append(log, [op |-> "dimensions", node |-> p,
                         dims |-> Dimensions(Sub(tree, p), cw),
                         from |-> Len(out), to |-> Len(out')])

CallRender(p) ==
  /\ Idle
  /\ LET e == Sub(tree, p)
         entry == [op |-> "render", node |-> p, dims |-> NoDims,
                   from |-> Len(out), to |-> -1]
     IN  IF e.kind = "Container"
         THEN /\ stack' = <<Frame(p, cw)>>
              /\ out' = out
              /\ log' = Append(log, entry)
         ELSE /\ stack' = stack
              /\ out' = out \o LeafRender(e)
              /\ log' = Finish(Append(log, entry), out')
  /\ UNCHANGED <<tree, cw>>

(***************************************************************************)
(* The steps of Container::render.                                         *)
(***************************************************************************)
TopBorder ==
  /\ ~Idle
  /\ Top.pc = "top"
  /\ out' = out \o RenderLine(Top.dims)
  /\ stack' = SetTop([Top EXCEPT !.pc = "row"])
  /\ UNCHANGED <<tree, log, cw>>

RowOpen ==
  /\ ~Idle
  /\ Top.pc = "row"
  /\ Top.k <= Len(Sub(tree, Top.path).children)
  /\ out' = out \o <<"|">>
  /\ stack' = SetTop([Top EXCEPT !.pc = "child",
                                 !.child_dims = Dimensions(Child(Top), cw)])
  /\ UNCHANGED <<tree, log, cw>>

ChildRender ==
  /\ ~Idle
  /\ Top.pc = "child"
  /\ LET after == [Top EXCEPT !.pc = "pad", !.i = 0]
     IN  IF Child(Top).kind = "Container"
         THEN /\ stack' = Append(SetTop(after), Frame(Top.path \o <<ChildIndex(Top)>>, cw))
              /\ out' = out
              /\ cw' = cw
         ELSE /\ stack' = SetTop(after)
              /\ out' = out \o LeafRender(Child(Top))
              /\ \E w \in (IF Child(Top).kind = "Custom" THEN 0..MaxLen ELSE {cw}) :
                   cw' = w
  /\ UNCHANGED <<tree, log>>

PadSpace ==
  /\ ~Idle
  /\ Top.pc = "pad"
  /\ ULess(Top.i, Padding(Top))
  /\ Padding(Top) < 0 => Top.i < PadCap
  /\ out' = out \o <<" ">>
  /\ stack' = SetTop([Top EXCEPT !.i = Top.i + 1])
  /\ UNCHANGED <<tree, log, cw>>

RowClose ==
  /\ ~Idle
  /\ Top.pc = "pad"
  /\ ~ULess(Top.i, Padding(Top))
  /\ out' = out \o <<"|", ENDL>>
  /\ stack' = SetTop([Top EXCEPT !.pc = "row", !.k = Top.k + 1, !.i = 0])
  /\ UNCHANGED <<tree, log, cw>>

BottomBorder ==
  /\ ~Idle
  /\ Top.pc = "row"
  /\ Top.k > Len(Sub(tree, Top.path).children)
  /\ out' = out \o RenderLine(Top.dims)
  /\ stack' = SubSeq(stack, 1, Len(stack) - 1)
  /\ log' = IF Len(stack) = 1 THEN Finish(log, out') ELSE log
  /\ UNCHANGED <<tree, cw>>

Step == TopBorder \/ RowOpen \/ ChildRender \/ PadSpace \/ RowClose \/ BottomBorder

(***************************************************************************)
(* Spec: as main does, the caller builds a tree (any tree, or main's) and  *)
(* renders its root.                                                       *)
(***************************************************************************)
Init ==
  /\ tree \in TreesUpTo(MaxNodes) \cup {DemoTree}
  /\ stack = <<>>
  /\ out = <<>>
  /\ log = <<>>
  /\ cw = 0

Main == Len(log) < MaxRenders /\ CallRender(<<>>)

Next == Main \/ Step

Spec == Init /\ [][Next]_vars

(***************************************************************************)
(* SpecCalls: any sequence of calls on any nodes of a tree.                *)
(***************************************************************************)
InitCalls ==
  /\ tree \in TreesUpTo(MaxCallNodes)
  /\ stack = <<>>
  /\ out = <<>>
  /\ log = <<>>
  /\ cw = 0

AnyDimensions == Len(log) < MaxCalls /\ \E p \in Paths(tree) : CallDimensions(p)

AnyRender == Len(log) < MaxCalls /\ \E p \in Paths(tree) : CallRender(p)

NextCalls == AnyDimensions \/ AnyRender \/ Step

SpecCalls == InitCalls /\ [][NextCalls]_vars

(***************************************************************************)
(* SpecOpen: Element is an abstract class, so a Container may hold an      *)
(* Element of a class other than the three of this file.  Such an element  *)
(* reports the width cw, and its render() may change what it reports next. *)
(***************************************************************************)
OpenLeaves == Leaves \cup {Custom}

OpenTrees ==
  {Container(<<a>>) : a \in OpenLeaves}
    \cup {Container(<<a, b>>) : a \in OpenLeaves, b \in OpenLeaves}
    \cup {Container(<<Container(<<a>>), b>>) : a \in OpenLeaves, b \in OpenLeaves}

InitOpen ==
  /\ tree \in OpenTrees
  /\ stack = <<>>
  /\ out = <<>>
  /\ log = <<>>
  /\ cw \in 0..MaxLen

MainOpen == log = <<>> /\ CallRender(<<>>)

NextOpen == MainOpen \/ Step

SpecOpen == InitOpen /\ [][NextOpen]_vars

(***************************************************************************)
(* What the claims are stated with.                                        *)
(***************************************************************************)
Frames == {stack[j] : j \in 1..Len(stack)}

InRow(f) == f.pc \in {"child", "pad"}

\* Every dimensions() result the state holds: the caller's, the dims of
\* each activation of Container::render, and the child_dims of its row.
Measured ==
  {[node |-> log[j].node, dims |-> log[j].dims] :
     j \in {n \in 1..Len(log) : log[n].op = "dimensions"}}
    \cup {[node |-> f.path, dims |-> f.dims] : f \in Frames}
    \cup {[node |-> f.path \o <<ChildIndex(f)>>, dims |-> f.child_dims] :
            f \in {g \in Frames : InRow(g)}}

SetMax(S) == CHOOSE m \in S : \A n \in S : n <= m

RECURSIVE SeqSum(_)
SeqSum(q) == IF q = <<>> THEN 0 ELSE Head(q) + SeqSum(Tail(q))

RECURSIVE ContractWidth(_), ContractHeight(_)
ContractWidth(e) ==
  IF e.kind = "Container"
  THEN SetMax({0} \cup {ContractWidth(e.children[k]) : k \in 1..Len(e.children)}) + 2
  ELSE Len(e.text)

ContractHeight(e) ==
  IF e.kind = "Container"
  THEN SeqSum([k \in 1..Len(e.children) |-> ContractHeight(e.children[k])])
  ELSE 1

Done(entry) == entry.to >= 0

Segment(entry) ==
  SubSeq(out, entry.from + 1, IF Done(entry) THEN entry.to ELSE Len(out))

Renders == {j \in 1..Len(log) : log[j].op = "render"}

DoneContainerRenders ==
  {j \in Renders : Done(log[j]) /\ Sub(tree, log[j].node).kind = "Container"}

\* C1: every Container, at any depth, measures max(child widths) + 2 (0 for
\* no children) by sum(child heights), the children measured recursively; so
\* a Container holding a Container is at least the inner width + 2 wide.
C1_ContainerDimensions ==
  \A m \in Measured :
    LET e == Sub(tree, m.node)
    IN  e.kind = "Container" =>
          /\ m.dims.width = ContractWidth(e)
          /\ m.dims.height = ContractHeight(e)
          /\ \A k \in 1..Len(e.children) :
               e.children[k].kind = "Container" =>
                 /\ m.dims.width >= ContractWidth(e.children[k]) + 2
                 /\ m.dims.width >= 4

C1_Witness ==
  \E f \in Frames :
    /\ Len(f.path) = 1
    /\ Len(Sub(tree, f.path).children) = 1
    /\ Len(Sub(tree, <<>>).children) = 2
    /\ stack[1].dims.width = f.dims.width + 2
    /\ stack[1].dims.height = 2

\* C6: a Text and a Heading of content length L measure L by 1; the markers
\* a Heading writes add nothing to its width.
C6_LeafDimensions ==
  \A m \in Measured :
    LET e == Sub(tree, m.node)
    IN  e.kind \in {"Text", "Heading"} =>
          /\ m.dims = [width |-> Len(e.text), height |-> 1]
          /\ m.dims = Dimensions(Text(e.text), cw)
          /\ m.dims = Dimensions(Heading(e.text), cw)

C6_Witness ==
  /\ \E m \in Measured :
       /\ Sub(tree, m.node).kind = "Heading"
       /\ Sub(tree, m.node).text = <<>>
       /\ m.dims = [width |-> 0, height |-> 1]
  /\ \E j \in 1..Len(out) : out[j] = RESET

\* C10: in every activation of Container::render, dims.width >= 2 and the
\* child's width is at most dims.width - 2, so neither subtraction wraps;
\* the widest child gets no padding.
C10_NoWrap ==
  \A f \in Frames :
    /\ f.dims.width >= 2
    /\ USub(f.dims.width, 2) >= 0
    /\ InRow(f) =>
         /\ f.child_dims.width <= f.dims.width - 2
         /\ Padding(f) >= 0
         /\ f.pc = "pad" => f.i <= Padding(f)
         /\ f.child_dims.width = ContractWidth(Sub(tree, f.path)) - 2
              => Padding(f) = 0

C10_Witness ==
  \E f \in Frames :
    /\ f.pc = "pad" /\ f.k = 2 /\ f.i = 2 /\ Padding(f) = 2
    /\ Sub(tree, f.path).children[1].kind = "Container"
    /\ f.dims.width = ContractWidth(Sub(tree, f.path).children[1]) + 2

(***************************************************************************)
(* The lines of an output: the tokens before each endl.                    *)
(***************************************************************************)
Breaks(q) == {j \in 1..Len(q) : q[j] = ENDL}

Break(q, n) ==
  IF n = 0 THEN 0
  ELSE CHOOSE j \in Breaks(q) : Cardinality({b \in Breaks(q) : b < j}) = n - 1

Lines(q) ==
  LET n == Cardinality(Breaks(q))
      whole == [j \in 1..n |-> SubSeq(q, Break(q, j - 1) + 1, Break(q, j) - 1)]
  IN  IF Break(q, n) = Len(q) THEN whole
      ELSE Append(whole, SubSeq(q, Break(q, n) + 1, Len(q)))

Visible(line) == SelectSeq(line, LAMBDA tok : ~IsEscape(tok))

IsContentRow(line) ==
  Len(line) >= 2 /\ line[1] = "|" /\ line[Len(line)] = "|"

IsBorderRow(line) ==
  /\ Len(line) >= 2
  /\ line[1] = "+"
  /\ line[Len(line)] = "+"
  /\ \A j \in 2..(Len(line) - 1) : line[j] = "-"

Repeat(tok, n) == [j \in 1..n |-> tok]

Border(w) == <<"+">> \o Repeat("-", w - 2) \o <<"+", ENDL>>

\* C2: render() of a Container writes dimensions().height + 2 lines, each
\* of dimensions().width characters, the Heading markers not counted.
C2_LineCountAndWidth ==
  \A j \in DoneContainerRenders :
    LET dims == Dimensions(Sub(tree, log[j].node), cw)
        lines == Lines(Segment(log[j]))
    IN  /\ Len(lines) = dims.height + 2
        /\ \A n \in 1..Len(lines) : Len(Visible(lines[n])) = dims.width

\* C3: every line render() of a Container writes is a content row ('|' at
\* both ends) or a border row ('+' at both ends, '-' between).
C3_RowShapes ==
  \A j \in DoneContainerRenders :
    LET lines == Lines(Segment(log[j]))
    IN  \A n \in 1..Len(lines) :
          IsContentRow(lines[n]) \/ IsBorderRow(lines[n])

\* C5: a Container with no children measures 2 by 0 and renders as the two
\* lines "++", with no content row.
C5_EmptyContainer ==
  /\ \A m \in Measured :
       Sub(tree, m.node) = Container(<<>>) => m.dims = [width |-> 2, height |-> 0]
  /\ \A j \in Renders :
       (Done(log[j]) /\ Sub(tree, log[j].node) = Container(<<>>)) =>
         Segment(log[j]) = <<"+", "+", ENDL, "+", "+", ENDL>>

C5_Witness ==
  /\ tree = Container(<<>>)
  /\ Len(log) = 1
  /\ Done(log[1])
  /\ Len(Lines(out)) = 2

(***************************************************************************)
(* The output the specification describes for an element: the border, one  *)
(* row per child in sequence order, the border.                            *)
(***************************************************************************)
RECURSIVE Rendered(_), Rows(_, _)
Rendered(e) ==
  CASE e.kind = "Container" ->
         Border(ContractWidth(e)) \o Rows(e, 1) \o Border(ContractWidth(e))
    [] e.kind = "Heading" -> <<BOLD>> \o e.text \o <<RESET>>
    [] OTHER -> e.text

Rows(e, k) ==
  IF k > Len(e.children) THEN <<>>
  ELSE <<"|">> \o Rendered(e.children[k])
         \o Repeat(" ", ContractWidth(e) - 2 - ContractWidth(e.children[k]))
         \o <<"|", ENDL>> \o Rows(e, k + 1)

IsPrefix(a, b) == Len(a) <= Len(b) /\ a = SubSeq(b, 1, Len(a))

\* C8: what render() has written so far is always an initial part of: the
\* opening border, then each child's row in sequence order ('|', the whole
\* child, its padding, '|' and the line break), then the closing border;
\* and two renders of the same node write the same output.
C8_RenderOrder ==
  /\ \A j \in Renders :
       /\ IsPrefix(Segment(log[j]), Rendered(Sub(tree, log[j].node)))
       /\ Done(log[j]) => Segment(log[j]) = Rendered(Sub(tree, log[j].node))
  /\ \A j \in Renders, n \in Renders :
       (Done(log[j]) /\ Done(log[n]) /\ log[j].node = log[n].node) =>
         Segment(log[j]) = Segment(log[n])

C8_Witness ==
  /\ Len(log) = 2
  /\ Done(log[1]) /\ Done(log[2])
  /\ log[1].to > log[1].from
  /\ Len(tree.children) = 2
  /\ tree.children[1].kind = "Container"
  /\ tree.children[1] # tree.children[2]
  /\ Segment(log[1]) = Segment(log[2])

(***************************************************************************)
(* main's tree.                                                            *)
(***************************************************************************)
DemoMeasured(w1, w2, w) ==
  \A m \in Measured :
    /\ m.node = <<1>> => m.dims = [width |-> w1, height |-> 1]
    /\ m.node = <<2>> => m.dims = [width |-> w2, height |-> 1]
    /\ m.node = <<>> => m.dims = [width |-> w, height |-> 2]

DemoOutput(w, pad) ==
  Border(w) \o <<"|", BOLD>> \o HelloWorld \o <<RESET>> \o Repeat(" ", pad)
    \o <<"|", ENDL>> \o <<"|">> \o LongString \o <<"|", ENDL>> \o Border(w)

DemoRendered(w, pad) ==
  \A j \in Renders :
    Done(log[j]) =>
      /\ Segment(log[j]) = DemoOutput(w, pad)
      /\ Len(Lines(Segment(log[j]))) = 4
      /\ Len(Lines(Segment(log[j]))[1]) = w

\* C4 as stated: in main's tree the Heading is 11 wide and the Text 30,
\* the Container 32 by 2, and render() writes a 32-column border, the bold
\* heading with 21 spaces, the text with none, and a 32-column border.
C4_DemoAsStated ==
  tree = DemoTree => (DemoMeasured(11, 30, 32) /\ DemoRendered(32, 21))

\* C4 amended: the Text is 29 wide, the Container 31 by 2, the borders have
\* 31 columns and the heading row has 18 spaces.
C4_Demo ==
  tree = DemoTree => (DemoMeasured(11, 29, 31) /\ DemoRendered(31, 18))

C4_Witness ==
  /\ tree = DemoTree
  /\ Len(log) = 1
  /\ Done(log[1])
  /\ Len(out) = 130
  /\ Len(Lines(out)[2]) = 33

\* C7: dimensions() has no side effects.  No call changes the tree; a
\* dimensions() call leaves the output sink and the render activations as
\* they were; and all dimensions() results for one node, the caller's and
\* those render() obtains, are the same.
C7_Stable ==
  \A m \in Measured, n \in Measured : m.node = n.node => m.dims = n.dims

C7_CallIsPure ==
  /\ tree' = tree
  /\ (Len(log') = Len(log) + 1 /\ log'[Len(log')].op = "dimensions") =>
       /\ out' = out
       /\ stack' = stack
       /\ log'[Len(log')].to = log'[Len(log')].from
       /\ SubSeq(log', 1, Len(log)) = log

\* C7: both parts, over every behaviour: the results for a node always
\* agree, and no step breaks the purity of a dimensions() call.
C7_DimensionsPure == [](C7_Stable) /\ [][C7_CallIsPure]_vars

C7_Witness ==
  /\ Len(log) = 2
  /\ log[1].op = "dimensions"
  /\ log[2].op = "render"
  /\ out # <<>>
  /\ \E f \in Frames :
       /\ InRow(f)
       /\ f.k = 2
       /\ f.path \o <<f.k>> = log[1].node
       /\ f.child_dims = log[1].dims

====
